---- MODULE Spec2Model ----
(***************************************************************************)
(* Model of the advertising pipeline of app/services/agent_service.py:     *)
(* DataAgent, AnalysisAgent, OptimizationAgent (generate / parse / grade   *)
(* / retry) and AgentOrchestrator.run_flow, together with the request and  *)
(* suggestion schemas of app/models/schemas.py and the lazily built        *)
(* language-model client of app/llm/llm_client.py.                         *)
(*                                                                         *)
(* Strings are sequences of one-character strings.  A generated text is    *)
(* the sequence of segments that the numbered markers "<n>. " delimit:     *)
(* segment 1 is what precedes the first marker.  Every other text value    *)
(* is a record tagged by its field k.                                      *)
(***************************************************************************)
EXTENDS Integers, Sequences, FiniteSets, TLC

\* ------------------------------------------------------------------ bounds
\* Largest number of numbered items in a generated text of the model.
MaxItems == 6

\* ----------------------------------------------------------------- strings
IsSpace(c) == c = " "

RECURSIVE LStrip(_)
LStrip(s) == IF s # <<>> /\ IsSpace(Head(s)) THEN LStrip(Tail(s)) ELSE s

RECURSIVE RStrip(_)
RStrip(s) ==
    IF s # <<>> /\ IsSpace(s[Len(s)]) THEN RStrip(SubSeq(s, 1, Len(s) - 1)) ELSE s

\* str.strip()
Strip(s) == LStrip(RStrip(s))

LowerChar(c) ==
    CASE c = "N" -> "n"
      [] c = "A" -> "a"
      [] c = "O" -> "o"
      [] c = "E" -> "e"
      [] OTHER -> c

\* str.lower()
Lower(s) == [i \in 1..Len(s) |-> LowerChar(s[i])]

\* The string values the model writes into the fields of an item.
sGood == <<"b", "i", "d", "+", "1", "0">>
sThree == <<"C", "P", "A">>
sNA == <<"N", "/", "A">>

\* ------------------------------------------------ schemas.OptimizationItem
\* The denylist; "wu" and "wei", "zhi" stand for the characters of its two
\* Chinese entries.
invalid_keywords ==
    { <<"wu">>, <<"n", "/", "a">>, <<"wei", "zhi">>,
      <<"n", "o", "n", "e">>, <<"u", "n", "k", "n", "o", "w", "n">> }

min_length_target == 2
min_length_action == 5
min_length_outcome == 2

\* Variant: the value is compared with the denylist in its own case.
CheckInOwnCase(v) ==
    IF Strip(v) \in invalid_keywords
    THEN [ok |-> FALSE, v |-> Strip(v)]
    ELSE [ok |-> TRUE, v |-> Strip(v)]

\* The field validator: strips, rejects a denylisted value.
check_not_empty_or_meaningless(v) ==
    IF Lower(Strip(v)) \in invalid_keywords
    THEN [ok |-> FALSE, v |-> Strip(v)]
    ELSE [ok |-> TRUE, v |-> Strip(v)]

\* One field: the min_length constraint of Field(...) is checked on the
\* value as given, then the field validator runs on it.
ValidateField(v, minlen) ==
    IF Len(v) < minlen
    THEN [ok |-> FALSE, v |-> v, why |-> "string_too_short"]
    ELSE IF ~check_not_empty_or_meaningless(v).ok
         THEN [ok |-> FALSE, v |-> v, why |-> "value_error"]
         ELSE [ok |-> TRUE, v |-> check_not_empty_or_meaningless(v).v, why |-> ""]

\* OptimizationItem(target=..., action=..., outcome=...): the item, or the
\* ValidationError with the names of the offending fields.
OptimizationItem(target, action, outcome) ==
    LET t == ValidateField(target, min_length_target)
        a == ValidateField(action, min_length_action)
        o == ValidateField(outcome, min_length_outcome)
    IN  IF t.ok /\ a.ok /\ o.ok
        THEN [ok |-> TRUE,
              item |-> [target |-> t.v, action |-> a.v, outcome |-> o.v]]
        ELSE [ok |-> FALSE,
              errors |-> { << f[1], f[2].why >> :
                             f \in { x \in { <<"target", t>>, <<"action", a>>,
                                             <<"outcome", o>> } : ~x[2].ok } }]

\* ------------------------------------------------------------ text values
\* A literal string of the program, named by its content.
Lit(s) == [k |-> "lit", s |-> s]
EmptyStr == Lit("")

\* A labelled field of a segment: absent, or present with the text that
\* follows its colon up to the next label.
NoLabel == [has |-> FALSE, v |-> <<>>]
Label(v) == [has |-> TRUE, v |-> v]

\* A segment between two numbered markers: blank (nothing but white space),
\* or content with the three labels in the order target, action, outcome.
Blank == [k |-> "blank"]
Seg(t, a, o) == [k |-> "seg", target |-> t, action |-> a, outcome |-> o]
GoodSeg == Seg(Label(sGood), Label(<<" ">> \o sGood), Label(sThree))
Prose == Seg(NoLabel, NoLabel, NoLabel)

GenText(segs) == [k |-> "gen", segs |-> segs]

\* n well-formed numbered items, nothing before the first marker.
Numbered(n) == <<Blank>> \o [i \in 1..n |-> GoodSeg]

ReplaceAt(seq, i, x) == [seq EXCEPT ![i] = x]

\* The texts a generation call returns in the model.
GenTexts ==
    { GenText(<<Blank>>) }
    \cup { GenText(Numbered(n)) : n \in 2..MaxItems }
    \cup { GenText(<<Prose>> \o Tail(Numbered(3))),
           GenText(ReplaceAt(Numbered(3), 3, Seg(Label(sGood), NoLabel, Label(sGood)))),
           GenText(ReplaceAt(Numbered(3), 4, Seg(Label(sNA), Label(sGood), Label(sGood)))),
           GenText(ReplaceAt(Numbered(4), 2, Seg(Label(sGood), Label(sThree), Label(sGood)))) }

\* ------------------------------------ OptimizationAgent._parse_and_validate
\* Variant: what precedes the first numbered marker is left out.
SplitAfterFirstMarker(text) ==
    SelectSeq(Tail(text.segs), LAMBDA b : b.k # "blank")

\* re.split on the numbered markers, strip, drop the empty blocks.
SplitBlocks(text) == SelectSeq(text.segs, LAMBDA b : b.k # "blank")

\* Variant: two blocks are enough.
MinBlocksTwo == 3 - 1

MinBlocks == 3
MaxBlocks == 5

CountReason == [k |-> "count"]
FormatReason(i) == [k |-> "format", index |-> i]
ValidationReason(i, errs) == [k |-> "validation", index |-> i, errors |-> errs]

\* One block: the three regex searches, then the item constructor.
ParseBlock(block, i) ==
    IF ~(block.target.has /\ block.action.has /\ block.outcome.has)
    THEN [ok |-> FALSE, reason |-> FormatReason(i)]
    ELSE LET it == OptimizationItem(Strip(block.target.v),
                                    Strip(block.action.v),
                                    Strip(block.outcome.v))
         IN  IF it.ok
             THEN [ok |-> TRUE, item |-> it.item]
             ELSE [ok |-> FALSE, reason |-> ValidationReason(i, it.errors)]

\* Variant: a block that yields no item is skipped and the others kept.
RECURSIVE ParseSkipping(_, _, _)
ParseSkipping(blocks, i, items) ==
    IF i > Len(blocks)
    THEN [ok |-> TRUE, items |-> items]
    ELSE LET r == ParseBlock(blocks[i], i)
         IN  ParseSkipping(blocks, i + 1,
                           IF r.ok THEN Append(items, r.item) ELSE items)

\* The for loop over the blocks from block i on, items collected so far.
RECURSIVE ParseFrom(_, _, _)
ParseFrom(blocks, i, items) ==
    IF i > Len(blocks)
    THEN [ok |-> TRUE, items |-> items]
    ELSE LET r == ParseBlock(blocks[i], i)
         IN  IF r.ok
             THEN ParseFrom(blocks, i + 1, Append(items, r.item))
             ELSE [ok |-> FALSE, reason |-> r.reason]

\* Variant: every text is taken as parsed, without items.
ParseUnchecked(text) == [ok |-> TRUE, items |-> <<>>]

_parse_and_validate(text) ==
    LET blocks == SplitBlocks(text)
    IN  IF ~(MinBlocks <= Len(blocks) /\ Len(blocks) <= MaxBlocks)
        THEN [ok |-> FALSE, reason |-> CountReason]
        ELSE ParseFrom(blocks, 1, <<>>)

\* ------------------------------------------- language-model call outcomes
\* A call returns a text or fails with a transport/provider error.
Returned(text) == [k |-> "returned", output |-> text]
Failed(e) == [k |-> "failed", error |-> e]
NoOutcome == [k |-> "none"]

TransportErrors == {"timeout"}

\* An exception that leaves the operation.
Exception(e) == [k |-> "exception", e |-> e]

\* str(e) of a caught exception.
StrOfError(e) == [k |-> "error", e |-> e]

\* A grader response: optional prose, then no JSON object, a flat object,
\* an object holding a nested object (the instructed shape, with its
\* breakdown), or an object that is not well-formed JSON.
Grade(prose, shape, score, critique) ==
    [k |-> "grade", prose |-> prose, shape |-> shape,
     score |-> score, critique |-> critique]

IntScore(n) == [k |-> "int", v |-> n]
TextScore == [k |-> "text"]
\* A score written as a decimal number or as a string of digits: int()
\* turns it into the integer v.
DecimalScore(v) == [k |-> "decimal", v |-> v]
DigitsScore(v) == [k |-> "digits", v |-> v]
MissingScore == [k |-> "missing"]
StrCritique(s) == [k |-> "str", s |-> s]
MissingCritique == [k |-> "missing"]

GradeResponses ==
    { Grade(FALSE, "flat", IntScore(79), StrCritique("too vague")),
      Grade(FALSE, "flat", IntScore(80), StrCritique("acceptable")),
      Grade(TRUE, "flat", IntScore(100), MissingCritique),
      Grade(FALSE, "flat", IntScore(150), StrCritique("excellent")),
      Grade(FALSE, "flat", IntScore(-5), StrCritique("fabricated")),
      Grade(FALSE, "flat", MissingScore, StrCritique("no score")),
      Grade(FALSE, "flat", TextScore, StrCritique("bad score")),
      Grade(FALSE, "flat", DecimalScore(85), StrCritique("half points")),
      Grade(FALSE, "flat", DigitsScore(90), StrCritique("quoted")) }
    \cup {
           Grade(TRUE, "nested", IntScore(90), StrCritique("fine")),
           Grade(FALSE, "malformed", IntScore(90), StrCritique("fine")),
           Grade(TRUE, "nojson", MissingScore, MissingCritique) }

\* ---------------------------------------- OptimizationAgent._evaluate_quality
PassThreshold == 80

QualityEvaluation(score, critique, passed) ==
    [score |-> score, critique |-> critique, passed |-> passed]

\* The except branch.
FallbackEvaluation == QualityEvaluation(0, Lit("grading unparsable"), FALSE)

\* Variant: the threshold itself does not pass.
PassedStrictly(score) == score > PassThreshold

\* passed=score >= 80
Passed(score) == score >= PassThreshold

\* re.search(r"\{.*?\}") takes the text from the first "{" to the first "}":
\* of a flat object that is the object, of a nested one a truncated text
\* that json.loads rejects.
JsonLoads(resp) ==
    IF resp.shape = "flat" THEN [ok |-> TRUE, data |-> resp] ELSE [ok |-> FALSE]

\* From the outcome of the grading call to the evaluation.
_evaluate_quality(outcome) ==
    IF outcome.k = "failed" THEN FallbackEvaluation
    ELSE LET resp == outcome.output
         IN  IF resp.shape = "nojson" \/ ~JsonLoads(resp).ok THEN FallbackEvaluation
             ELSE IF resp.score.k = "text" THEN FallbackEvaluation
             ELSE LET score == IF resp.score.k = "missing" THEN 0 ELSE resp.score.v
                      critique == IF resp.critique.k = "missing"
                                  THEN EmptyStr ELSE Lit(resp.critique.s)
                  IN  QualityEvaluation(score, critique, Passed(score))

\* --------------------------------------------- schemas.AgentTaskRequest
\* An optional string argument.
None == [k |-> "null"]
Str(s) == [k |-> "str", s |-> s]

Tasks == { <<>>, <<" ">>, <<"q">> }
DateArgs == { None, Str(<<" ">>), Str(<<"2">>), Str(<<"?">>) }

\* Variant: the task is tested without being stripped.
TaskNotEmptyUnstripped(v) == v # <<>>

\* if not v.strip(): raise ValueError
check_task_not_empty(v) == Strip(v) # <<>>

\* Variant: a date is kept whatever it is.
KeepAsGiven(v) == v

\* A blank date becomes None, any other value is kept.
empty_string_to_none(v) == IF v.k = "str" /\ Strip(v.s) = <<>> THEN None ELSE v

TaskErrorMsg == Lit("task must not be empty or blank")

\* AgentTaskRequest(task=..., date_start=..., date_end=...)
AgentTaskRequest(task, date_start, date_end) ==
    IF ~check_task_not_empty(task)
    THEN [ok |-> FALSE, msg |-> TaskErrorMsg]
    ELSE [ok |-> TRUE,
          req |-> [task |-> task,
                   date_start |-> empty_string_to_none(date_start),
                   date_end |-> empty_string_to_none(date_end)]]

\* ------------------------------------------------------------ DataAgent.run
\* A date of the model is a day number; NaT is what an unreadable date of
\* the date column is coerced to.
NaT == [k |-> "nat"]
Day(n) == [k |-> "day", d |-> n]
Digits == [c \in {"1", "2", "3"} |-> CASE c = "1" -> 1 [] c = "2" -> 2 [] OTHER -> 3]
IsDateString(s) == Len(s) = 1 /\ s[1] \in DOMAIN Digits

\* pd.to_datetime(col, errors="coerce") on one cell.
CoerceDate(s) == IF IsDateString(s) THEN Day(Digits[s[1]]) ELSE NaT

Row(date, name, impressions, clicks, conversions, spend) ==
    [date |-> date, campaign_name |-> name, impressions |-> impressions,
     clicks |-> clicks, conversions |-> conversions, spend |-> spend]

\* The contents of ads_performance.csv in the model.
Tables ==
    { <<>>,
      << Row(<<"1">>, "A", 100, 10, 1, 50),
         Row(<<"2">>, "A", 300, 10, 0, 30),
         Row(<<"2">>, "B", 0, 0, 0, 0),
         Row(<<"?">>, "B", 10, 5, 1, 7) >> }

ReadErrors == {"FileNotFoundError"}

\* True when the argument is set (truthy) in `if req.date_start:`.
IsSet(v) == v.k = "str" /\ v.s # <<>>

\* Variant: the start bound is exclusive.
GtDate(d, bound) == d.k = "day" /\ d.d > bound.d

\* df[df["date"] >= start], df[df["date"] <= end]; a comparison with NaT
\* is false.
GeDate(d, bound) == d.k = "day" /\ d.d >= bound.d
LeDate(d, bound) == d.k = "day" /\ d.d <= bound.d

FilterRows(df, req) ==
    LET afterStart == IF IsSet(req.date_start)
                      THEN SelectSeq(df, LAMBDA r : GeDate(r.date, CoerceDate(req.date_start.s)))
                      ELSE df
    IN  IF IsSet(req.date_end)
        THEN SelectSeq(afterStart, LAMBDA r : LeDate(r.date, CoerceDate(req.date_end.s)))
        ELSE afterStart

RECURSIVE SumOf(_, _, _)
SumOf(df, name, col) ==
    IF df = <<>> THEN 0
    ELSE (IF Head(df).campaign_name = name THEN Head(df)[col] ELSE 0)
         + SumOf(Tail(df), name, col)

\* .clip(lower=1)
ClipLower1(x) == IF x < 1 THEN 1 ELSE x

\* A quotient, kept as numerator and denominator.
Ratio(n, d) == <<n, d>>

\* Variant: each ratio is the mean of the ratios of the rows, the sum of
\* the row quotients over the number of rows.
AddRatio(x, y) == Ratio(x[1] * y[2] + y[1] * x[2], x[2] * y[2])
RECURSIVE MeanOfRows(_, _, _, _)
MeanOfRows(df, name, num, den) ==
    IF df = <<>> THEN Ratio(0, 1)
    ELSE IF Head(df).campaign_name = name
         THEN AddRatio(Ratio(Head(df)[num], ClipLower1(Head(df)[den])),
                       MeanOfRows(Tail(df), name, num, den))
         ELSE MeanOfRows(Tail(df), name, num, den)
AggregateMeanOfRows(df) ==
    [name \in {df[i].campaign_name : i \in DOMAIN df} |->
        LET n == Cardinality({i \in DOMAIN df : df[i].campaign_name = name})
            mean(num, den) ==
                LET m == MeanOfRows(df, name, num, den) IN Ratio(m[1], m[2] * n)
        IN  [impressions |-> SumOf(df, name, "impressions"),
             clicks |-> SumOf(df, name, "clicks"),
             conversions |-> SumOf(df, name, "conversions"),
             spend |-> SumOf(df, name, "spend"),
             ctr |-> mean("clicks", "impressions"),
             cpc |-> mean("spend", "clicks"),
             cpa |-> mean("spend", "conversions")]]

\* groupby("campaign_name").agg(sum) and the three ratios of the totals.
Aggregate(df) ==
    [name \in {df[i].campaign_name : i \in DOMAIN df} |->
        LET impressions == SumOf(df, name, "impressions")
            clicks == SumOf(df, name, "clicks")
            conversions == SumOf(df, name, "conversions")
            spend == SumOf(df, name, "spend")
        IN  [impressions |-> impressions, clicks |-> clicks,
             conversions |-> conversions, spend |-> spend,
             ctr |-> Ratio(clicks, ClipLower1(impressions)),
             cpc |-> Ratio(spend, ClipLower1(clicks)),
             cpa |-> Ratio(spend, ClipLower1(conversions))]]

\* agg.to_markdown(index=False): never the empty string, the header row is
\* always there.
ToMarkdown(agg) == [k |-> "md", rows |-> agg]

HeadRows == 5
DfHead(df) == SubSeq(df, 1, IF Len(df) < HeadRows THEN Len(df) ELSE HeadRows)

DataAborted == Lit("data read aborted")
DataSystemError == Lit("system error")

\* DataAgent.run on the arguments, `read` being the outcome of read_csv.
DataAgentRun(task, date_start, date_end, read) ==
    LET v == AgentTaskRequest(task, date_start, date_end)
    IN  IF ~v.ok
        THEN [summary |-> DataAborted, error |-> v.msg, verified |-> FALSE]
        ELSE IF read.k = "failed"
        THEN [summary |-> DataSystemError, error |-> StrOfError(read.error),
              verified |-> FALSE]
        ELSE LET dated == [i \in DOMAIN read.output |->
                              [read.output[i] EXCEPT !.date = CoerceDate(@)]]
             IN   IF (IsSet(v.req.date_start) /\ ~IsDateString(v.req.date_start.s))
                    \/ (IsSet(v.req.date_end) /\ ~IsDateString(v.req.date_end.s))
                 THEN [summary |-> DataSystemError,
                       error |-> StrOfError("DateParseError"), verified |-> FALSE]
                 ELSE LET df == FilterRows(dated, v.req)
                      IN  [summary |-> ToMarkdown(Aggregate(df)),
                           raw_df_head |-> DfHead(df), verified |-> TRUE]

\* True when the data source is read by DataAgent.run on that task.
DataAccessed(task) == check_task_not_empty(task)

\* ------------------------------------------------------------------ state
VARIABLES
    pc,               \* where the request in progress stands
    entry,            \* the operation the caller invoked
    req,              \* its arguments
    steps,            \* run_flow: the local list steps
    data_result,      \* run_flow: what DataAgent.run returned
    analysis_result,  \* what AnalysisAgent.run returned
    opt_result,       \* what OptimizationAgent.run returned
    response,         \* the AgentRunResponse run_flow returned
    raised,           \* the exception that left the operation
    analysis_text,    \* OptimizationAgent.run: local analysis_text
    attempt,          \* OptimizationAgent.run: loop variable
    final_markdown,   \* OptimizationAgent.run: local final_markdown
    last_error_hint,  \* OptimizationAgent.run: local last_error_hint
    parsed,           \* OptimizationAgent.run: local parsed_or_error
    eval_result,      \* OptimizationAgent.run: local eval_result
    call,             \* the language-model call in flight
    llm_client,       \* llm_client._llm_client
    storage,          \* file_storage._storage
    invoked,          \* history: the stages invoked by this request
    calls,            \* history: calls made by this request, by kind
    hist,             \* history: how each finished attempt ended
    lastGen,          \* history: outcome of the latest generation call
    lastText,         \* history: output of the latest generation call that returned
    lastGrade,        \* history: outcome of the latest attempt's grading call
    io,               \* history: outcome of the data read and of the analysis call
    fn_in,            \* the arguments a function is applied to
    fn_out,           \* what the function returns on them
    other,            \* the locals of a second request, suspended at an await
    active,           \* which of the two requests the locals above belong to
    constructed       \* history: instances built of the client and of the storage

vars == << pc, entry, req, steps, data_result, analysis_result, opt_result,
           response, raised, analysis_text, attempt, final_markdown,
           last_error_hint, parsed, eval_result, call, llm_client, storage,
           invoked, calls, hist, lastGen, lastText, lastGrade, io, fn_in,
           fn_out, other, active, constructed >>

Unset == [k |-> "none"]
NoCalls == [analysis |-> 0, generate |-> 0, grade |-> 0]
NoIo == [read |-> NoOutcome, analysis |-> NoOutcome]

\* The texts an analysis call returns in the model.
AnalysisTexts == { Lit("A best, B worst"), EmptyStr }

\* The arguments of a direct call of a stage.
SummaryArgs == { EmptyStr, ToMarkdown(Aggregate(<<>>)) }

ClientErrors == {"RuntimeError"}

\* --------------------------------------------------------------- the calls
\* The generation prompt: the output contract, then the analysis text.
GenPrompt(analysis) == << Lit("contract 3-5 items"), analysis >>
AnalysisPrompt(summary) == << Lit("summary:"), summary, Lit("best and worst") >>
EvalPrompt(analysis, content) == << Lit("rubric"), analysis, content, Lit("json only") >>

\* Temperatures in tenths: 0.3 + attempt * 0.1 for a generation call (the
\* three sums are exactly 0.3, 0.4 and 0.5 as floats), 0.1 for a grade.
BaseTemp == 3
\* Variant: every attempt is made at the base temperature.
TempStepNone == 1 - 1

TempStep == 1
EvalTemp == 1

LlmCall(kind, sys, user, temp, maxtok) ==
    [kind |-> kind, system_prompt |-> sys, user_prompt |-> user,
     temperature |-> temp, max_tokens |-> maxtok]

GenCall(analysis, att) ==
    LlmCall("generate", Lit("ads optimisation expert"), GenPrompt(analysis),
            BaseTemp + att * TempStep, 1024)
AnalysisCall(summary) ==
    LlmCall("analysis", Lit("data analysis advisor"), AnalysisPrompt(summary),
            BaseTemp, 512)
EvalCall(analysis, content) ==
    LlmCall("grade", Lit("strict auditor"), EvalPrompt(analysis, content),
            EvalTemp, 512)

\* ----------------------------------------------------------------- run_flow
AgentStepResult(name, summary, raw) ==
    [name |-> name, summary |-> summary, raw_output |-> raw]

\* text[:200]
Preview(text) == [k |-> "first200", of |-> text]

\* Variant: the new step replaces the trace.
AppendStepOverwrites(trace, step) == << step >>

AppendStep(trace, step) == Append(trace, step)

AgentRunResponse(data, analysis, optimization, trace) ==
    [data_summary |-> data, analysis_insights |-> analysis,
     optimization_suggestions |-> optimization, steps |-> trace]

TaskFailed == Lit("task failed")
OptimizationFailed == Lit("optimization suggestions failed")
NoData == Lit("no data to analyse")

\* Variant: the early return carries the summary of the failed DataAgent.
DataFailedKeepsSummary(trace) ==
    AgentRunResponse(trace[1].raw_output.summary, EmptyStr, EmptyStr, trace)

\* The early return after a failed DataAgent.
DataFailedResponse(trace) == AgentRunResponse(TaskFailed, EmptyStr, EmptyStr, trace)

\* Variant: the response after a failed OptimizationAgent still carries the
\* rejected text.
FinalResponseKeepsText(data, analysis, opt, trace) ==
    AgentRunResponse(data.summary, analysis.analysis, opt.suggestions, trace)

\* The two returns after OptimizationAgent.
FinalResponse(data, analysis, opt, trace) ==
    IF ~opt.verified
    THEN AgentRunResponse(data.summary, analysis.analysis, OptimizationFailed, trace)
    ELSE AgentRunResponse(data.summary, analysis.analysis, opt.suggestions, trace)

\* ------------------------------------------------- OptimizationAgent.run
\* Variant: the loop bound is one too small.
max_retries_short == 3 - 1

max_retries == 3

\* Variant: the exhausted result forgets the failure reason.
ExhaustedNoReason(markdown, hint) ==
    [suggestions |-> markdown, structured_data |-> <<>>,
     verified |-> FALSE, fail_reason |-> EmptyStr]

\* Variant: the exhausted result reports the evaluation of a failed grade.
ExhaustedWithEvaluation(markdown, hint) ==
    [suggestions |-> markdown, structured_data |-> <<>>,
     evaluation |-> FallbackEvaluation, verified |-> FALSE,
     fail_reason |-> hint]

ExhaustedResult(markdown, hint) ==
    [suggestions |-> markdown, structured_data |-> <<>>,
     verified |-> FALSE, fail_reason |-> hint]

\* Variant: the accepted result is reported as not verified.
AcceptedNotVerified(markdown, items, evaluation) ==
    [suggestions |-> markdown, structured_data |-> items,
     evaluation |-> evaluation, verified |-> FALSE]

AcceptedResult(markdown, items, evaluation) ==
    [suggestions |-> markdown, structured_data |-> items,
     evaluation |-> evaluation, verified |-> TRUE]

\* --------------------------------------------------------------------- Init
\* The locals of a request that has not started.
InitialLocals ==
    [pc |-> "idle", entry |-> "none", req |-> Unset, steps |-> <<>>,
     data_result |-> Unset, analysis_result |-> Unset, opt_result |-> Unset,
     response |-> Unset, raised |-> Unset, analysis_text |-> Unset,
     attempt |-> 0, final_markdown |-> EmptyStr, last_error_hint |-> EmptyStr,
     parsed |-> Unset, eval_result |-> Unset, call |-> Unset, invoked |-> <<>>,
     calls |-> NoCalls, hist |-> <<>>, lastGen |-> NoOutcome, lastText |-> Unset,
     lastGrade |-> NoOutcome, io |-> NoIo]

Init ==
    /\ pc = "idle"
    /\ entry = "none"
    /\ req = Unset
    /\ steps = <<>>
    /\ data_result = Unset
    /\ analysis_result = Unset
    /\ opt_result = Unset
    /\ response = Unset
    /\ raised = Unset
    /\ analysis_text = Unset
    /\ attempt = 0
    /\ final_markdown = EmptyStr
    /\ last_error_hint = EmptyStr
    /\ parsed = Unset
    /\ eval_result = Unset
    /\ call = Unset
    /\ llm_client = "unset"
    /\ storage = "unset"
    /\ invoked = <<>>
    /\ calls = NoCalls
    /\ hist = <<>>
    /\ lastGen = NoOutcome
    /\ lastText = Unset
    /\ lastGrade = NoOutcome
    /\ io = NoIo
    /\ fn_in = Unset
    /\ fn_out = Unset
    /\ other = InitialLocals
    /\ active = 1
    /\ constructed = [client |-> 0, storage |-> 0]

\* ---------------------------------------------------------------- helpers
stageVars == << data_result, analysis_result, opt_result >>
optLocals == << analysis_text, attempt, final_markdown, last_error_hint, parsed,
               eval_result >>
attemptHist == << hist, lastGen, lastText, lastGrade >>
fnVars == << fn_in, fn_out >>
suspended == << other, active >>

\* Variant: two calls are issued together.
CountTwice(kind) == calls' = [calls EXCEPT ![kind] = @ + 2]

Count(kind) == calls' = [calls EXCEPT ![kind] = @ + 1]

\* Variant: the client is built on every call, whether one exists or not.
ClientBuiltEachTime(ok) ==
    /\ llm_client' = IF ok THEN "built" ELSE llm_client
    /\ constructed' = IF ok THEN [constructed EXCEPT !.client = @ + 1]
                      ELSE constructed

\* get_llm_client(): the instance if there is one, else the constructor,
\* which builds it (ok) or raises.
ClientReady(ok) ==
    /\ llm_client = "unset" \/ ok
    /\ llm_client' = IF ok THEN "built" ELSE llm_client
    /\ constructed' = IF llm_client = "unset" /\ ok
                      THEN [constructed EXCEPT !.client = @ + 1]
                      ELSE constructed

\* The argument the stage is called with.
SummaryArg == IF entry = "run_flow" THEN data_result.summary ELSE req.data_summary
AnalysisArg == IF entry = "run_flow" THEN analysis_result.analysis ELSE req.analysis

\* Variant: the summary is never taken to be empty.
NeverEmptyText(t) == FALSE

\* `if not data_summary`
IsEmptyText(t) == t = EmptyStr

\* {"analysis": ...}
AnalysisResult(text) == [analysis |-> text]

\* AnalysisAgent.run returns a to its caller; in run_flow the step is
\* appended and OptimizationAgent is next.
AnalysisReturns(a) ==
    /\ analysis_result' = a
    /\ IF entry = "run_flow"
       THEN /\ steps' = AppendStep(steps,
                  AgentStepResult("AnalysisAgent", Preview(a.analysis), a))
            /\ pc' = "opt_enter"
       ELSE /\ steps' = steps
            /\ pc' = "done"

\* OptimizationAgent.run returns r to its caller; in run_flow the step is
\* appended and the response is built.
OptReturns(r) ==
    /\ opt_result' = r
    /\ pc' = "done"
    /\ IF entry = "run_flow"
       THEN /\ steps' = AppendStep(steps,
                  AgentStepResult("OptimizationAgent", Preview(r.suggestions), r))
            /\ response' = FinalResponse(data_result, analysis_result, r, steps')
       ELSE /\ steps' = steps
            /\ response' = response

\* Variant: the loop is left after its first attempt.
LoopOnce(att) == att < 1

\* Variant: the loop makes a fourth attempt.
LoopOnceMore(att) == att < max_retries + 1

\* `for attempt in range(max_retries)`
LoopContinues(att) == att < max_retries

\* ------------------------------------------------------------------ actions
\* A caller invokes run_flow(task, date_start, date_end).
RunFlowCall ==
    /\ pc = "idle"
    /\ \E task \in Tasks, ds \in DateArgs, de \in DateArgs :
          req' = [task |-> task, date_start |-> ds, date_end |-> de]
    /\ entry' = "run_flow"
    /\ pc' = "rf_data"
    /\ UNCHANGED << io, fnVars, suspended, constructed, steps, stageVars,
                    response, raised, optLocals, call,
                    llm_client, storage, invoked, calls, attemptHist >>

\* A caller invokes AnalysisAgent.run(data_summary=...).
AnalysisAgentCall ==
    /\ pc = "idle"
    /\ \E summary \in SummaryArgs : req' = [data_summary |-> summary]
    /\ entry' = "analysis_run"
    /\ pc' = "an_enter"
    /\ UNCHANGED << io, fnVars, suspended, constructed, steps, stageVars,
                    response, raised, optLocals, call,
                    llm_client, storage, invoked, calls, attemptHist >>

\* A caller invokes OptimizationAgent.run(analysis=...).
OptimizationAgentCall ==
    /\ pc = "idle"
    /\ \E analysis \in AnalysisTexts : req' = [analysis |-> analysis]
    /\ entry' = "opt_run"
    /\ pc' = "opt_enter"
    /\ UNCHANGED << io, fnVars, suspended, constructed, steps, stageVars,
                    response, raised, optLocals, call,
                    llm_client, storage, invoked, calls, attemptHist >>

\* POST /run: the framework builds the AgentTaskRequest of the body; a
\* body it rejects is answered without agent_run being called, any other
\* is handed to run_flow field by field.
AgentRunRoute ==
    /\ pc = "idle"
    /\ \E task \in Tasks, ds \in DateArgs, de \in DateArgs :
          LET v == AgentTaskRequest(task, ds, de)
          IN  IF ~v.ok
              THEN /\ req' = [task |-> task, date_start |-> ds, date_end |-> de]
                   /\ entry' = "agent_run"
                   /\ pc' = "rejected"
              ELSE /\ req' = v.req
                   /\ entry' = "run_flow"
                   /\ pc' = "rf_data"
    /\ UNCHANGED << io, fnVars, suspended, constructed, steps, stageVars,
                    response, raised, optLocals, call,
                    llm_client, storage, invoked, calls, attemptHist >>

\* run_flow from its start to the call of AnalysisAgent: DataAgent.run, the
\* first step, the early return.
DataStage ==
    /\ pc = "rf_data"
    /\ \E read \in {Failed(e) : e \in ReadErrors} \cup {Returned(t) : t \in Tables} :
          LET r == DataAgentRun(req.task, req.date_start, req.date_end, read)
          IN  /\ data_result' = r
              /\ steps' = AppendStep(steps,
                    AgentStepResult("DataAgent", Preview(r.summary), r))
              /\ IF ~r.verified
                 THEN /\ response' = DataFailedResponse(steps')
                      /\ pc' = "done"
                 ELSE /\ response' = response
                      /\ pc' = "an_enter"
              /\ io' = [io EXCEPT !.read = IF DataAccessed(req.task)
                                           THEN read ELSE NoOutcome]
    /\ storage' = IF DataAccessed(req.task) THEN "built" ELSE storage
    /\ constructed' = IF DataAccessed(req.task) /\ storage = "unset"
                      THEN [constructed EXCEPT !.storage = @ + 1]
                      ELSE constructed
    /\ invoked' = Append(invoked, "DataAgent")
    /\ UNCHANGED << fnVars, suspended, entry, req, analysis_result,
                    opt_result, raised, optLocals,
                    call, llm_client, calls, attemptHist >>

\* AnalysisAgent.run up to its language-model call.
AnalysisStart ==
    /\ pc = "an_enter"
    /\ invoked' = Append(invoked, "AnalysisAgent")
    /\ \E ok \in BOOLEAN :
          /\ ClientReady(ok)
          /\ IF llm_client' = "unset"
             THEN /\ \E e \in ClientErrors : raised' = Exception(e)
                  /\ pc' = "raised"
                  /\ UNCHANGED << steps, analysis_result, call, calls >>
             ELSE /\ raised' = raised
                  /\ IF IsEmptyText(SummaryArg)
                     THEN /\ AnalysisReturns(AnalysisResult(NoData))
                          /\ UNCHANGED << call, calls >>
                     ELSE /\ call' = AnalysisCall(SummaryArg)
                          /\ Count("analysis")
                          /\ pc' = "an_call"
                          /\ UNCHANGED << steps, analysis_result >>
    /\ UNCHANGED << io, fnVars, suspended, entry, req, data_result,
                    opt_result, response, optLocals,
                    storage, attemptHist >>

\* The analysis call returns or fails; nothing in AnalysisAgent.run or in
\* run_flow catches the failure.
AnalysisReturn ==
    /\ pc = "an_call"
    /\ call' = Unset
    /\ \E outcome \in {Failed(e) : e \in TransportErrors}
                      \cup {Returned(t) : t \in AnalysisTexts} :
          /\ io' = [io EXCEPT !.analysis = outcome]
          /\ IF outcome.k = "failed"
             THEN /\ raised' = Exception(outcome.error)
                  /\ pc' = "raised"
                  /\ UNCHANGED << steps, analysis_result >>
             ELSE /\ AnalysisReturns(AnalysisResult(outcome.output))
                  /\ raised' = raised
    /\ UNCHANGED << fnVars, suspended, constructed, entry, req, data_result,
                    opt_result, response, optLocals,
                    llm_client, storage, invoked, calls, attemptHist >>

\* OptimizationAgent.run up to its loop.
OptStart ==
    /\ pc = "opt_enter"
    /\ invoked' = Append(invoked, "OptimizationAgent")
    /\ \E ok \in BOOLEAN :
          /\ ClientReady(ok)
          /\ IF llm_client' = "unset"
             THEN /\ \E e \in ClientErrors : raised' = Exception(e)
                  /\ pc' = "raised"
                  /\ UNCHANGED optLocals
             ELSE /\ raised' = raised
                  /\ analysis_text' = AnalysisArg
                  /\ attempt' = 0
                  /\ final_markdown' = EmptyStr
                  /\ last_error_hint' = EmptyStr
                  /\ UNCHANGED << parsed, eval_result >>
                  /\ pc' = "opt_loop"
    /\ UNCHANGED << io, fnVars, suspended, entry, req, steps, stageVars,
                    response, call, storage,
                    calls, attemptHist >>

\* The head of the loop: the next generation call, or the return after the
\* last attempt.
OptLoop ==
    /\ pc = "opt_loop"
    /\ IF LoopContinues(attempt)
       THEN /\ call' = GenCall(analysis_text, attempt)
            /\ Count("generate")
            /\ pc' = "opt_gen"
            /\ UNCHANGED << steps, opt_result, response >>
       ELSE /\ OptReturns(ExhaustedResult(final_markdown, last_error_hint))
            /\ UNCHANGED << call, calls >>
    /\ UNCHANGED << io, fnVars, suspended, constructed, entry, req,
                    data_result, analysis_result, raised, optLocals,
                    llm_client, storage, invoked, attemptHist >>

\* Variant: the except clause forgets the text of the earlier attempts.
MarkdownCleared(markdown) == EmptyStr

\* The except clause of the loop body assigns last_error_hint only: the
\* local final_markdown keeps the value it had before the call.
MarkdownAfterError(markdown) == markdown

\* The generation call returns or fails: the text is parsed, and graded if
\* it parses.
OptGenReturn ==
    /\ pc = "opt_gen"
    /\ \E outcome \in {Failed(e) : e \in TransportErrors}
                      \cup {Returned(t) : t \in GenTexts} :
          /\ lastGen' = outcome
          /\ lastGrade' = NoOutcome
          /\ IF outcome.k = "failed"
             THEN /\ last_error_hint' = StrOfError(outcome.error)
                  /\ attempt' = attempt + 1
                  /\ hist' = Append(hist, "generation_failed")
                  /\ pc' = "opt_loop"
                  /\ call' = Unset
                  /\ final_markdown' = MarkdownAfterError(final_markdown)
                  /\ UNCHANGED << parsed, calls, lastText >>
             ELSE LET p == _parse_and_validate(outcome.output)
                  IN  /\ final_markdown' = outcome.output
                      /\ lastText' = outcome.output
                      /\ IF ~p.ok
                         THEN /\ parsed' = p.reason
                              /\ last_error_hint' = p.reason
                              /\ attempt' = attempt + 1
                              /\ hist' = Append(hist, "parse_failed")
                              /\ pc' = "opt_loop"
                              /\ call' = Unset
                              /\ calls' = calls
                         ELSE /\ parsed' = p.items
                              /\ call' = EvalCall(analysis_text, outcome.output)
                              /\ Count("grade")
                              /\ pc' = "opt_grade"
                              /\ UNCHANGED << last_error_hint, attempt, hist >>
    /\ UNCHANGED << io, fnVars, suspended, constructed, entry, req, steps,
                    stageVars, response, raised,
                    analysis_text, eval_result, llm_client, storage, invoked >>

\* The grading call returns or fails: the attempt is accepted, or its
\* critique is kept and the loop goes on.
OptGradeReturn ==
    /\ pc = "opt_grade"
    /\ call' = Unset
    /\ \E outcome \in {Failed(e) : e \in TransportErrors}
                      \cup {Returned(g) : g \in GradeResponses} :
          LET ev == _evaluate_quality(outcome)
          IN  /\ lastGrade' = outcome
              /\ eval_result' = ev
              /\ IF ~ev.passed
                 THEN /\ last_error_hint' = ev.critique
                      /\ attempt' = attempt + 1
                      /\ hist' = Append(hist, "grade_failed")
                      /\ pc' = "opt_loop"
                      /\ UNCHANGED << steps, opt_result, response >>
                 ELSE /\ OptReturns(AcceptedResult(final_markdown, parsed, ev))
                      /\ hist' = Append(hist, "accepted")
                      /\ UNCHANGED << last_error_hint, attempt >>
    /\ UNCHANGED << io, fnVars, suspended, constructed, entry, req,
                    data_result, analysis_result, raised,
                    analysis_text, final_markdown, parsed, llm_client, storage,
                    invoked, calls, lastGen, lastText >>

\* The caller has its result or its exception; the locals of the request
\* are gone, the module-level instances stay.
Reset ==
    /\ pc \in {"done", "raised", "rejected"}
    /\ pc' = "idle"
    /\ entry' = "none"
    /\ req' = Unset
    /\ steps' = <<>>
    /\ data_result' = Unset
    /\ analysis_result' = Unset
    /\ opt_result' = Unset
    /\ response' = Unset
    /\ raised' = Unset
    /\ analysis_text' = Unset
    /\ attempt' = 0
    /\ final_markdown' = EmptyStr
    /\ last_error_hint' = EmptyStr
    /\ parsed' = Unset
    /\ eval_result' = Unset
    /\ call' = Unset
    /\ invoked' = <<>>
    /\ calls' = NoCalls
    /\ hist' = <<>>
    /\ lastGen' = NoOutcome
    /\ lastText' = Unset
    /\ lastGrade' = NoOutcome
    /\ io' = NoIo
    /\ UNCHANGED << fnVars, suspended, constructed, llm_client, storage >>

Next ==
    \/ RunFlowCall
    \/ AgentRunRoute
    \/ AnalysisAgentCall
    \/ OptimizationAgentCall
    \/ DataStage
    \/ AnalysisStart
    \/ AnalysisReturn
    \/ OptStart
    \/ OptLoop
    \/ OptGenReturn
    \/ OptGradeReturn
    \/ Reset

Spec == Init /\ [][Next]_vars

\* ------------------------------------------------- two requests at once
\* The locals of the request in progress: the frames of run_flow and of
\* the agent it awaits, with the history kept of them.
Locals ==
    [pc |-> pc, entry |-> entry, req |-> req, steps |-> steps,
     data_result |-> data_result, analysis_result |-> analysis_result,
     opt_result |-> opt_result, response |-> response, raised |-> raised,
     analysis_text |-> analysis_text, attempt |-> attempt,
     final_markdown |-> final_markdown, last_error_hint |-> last_error_hint,
     parsed |-> parsed, eval_result |-> eval_result, call |-> call,
     invoked |-> invoked, calls |-> calls, hist |-> hist, lastGen |-> lastGen,
     lastText |-> lastText, lastGrade |-> lastGrade, io |-> io]

\* Where a request can be when the event loop runs the other one: not
\* started, awaiting a language-model call, or over.
SuspensionPoints ==
    {"idle", "an_call", "opt_gen", "opt_grade", "done", "raised", "rejected"}

\* Variant: the loop variable is kept on the shared OptimizationAgent, so
\* a resumed request finds the value the other one left.
AttemptOnAgent(saved, current) == current

\* `attempt` is a local of the coroutine: a resumed request finds its own.
ResumedAttempt(saved, current) == saved

\* The event loop suspends the request in progress at an await and resumes
\* the other one; the module-level instances are the same for both.
Switch ==
    /\ pc \in SuspensionPoints
    /\ other' = Locals
    /\ active' = 3 - active
    /\ pc' = other.pc
    /\ entry' = other.entry
    /\ req' = other.req
    /\ steps' = other.steps
    /\ data_result' = other.data_result
    /\ analysis_result' = other.analysis_result
    /\ opt_result' = other.opt_result
    /\ response' = other.response
    /\ raised' = other.raised
    /\ analysis_text' = other.analysis_text
    /\ attempt' = ResumedAttempt(other.attempt, attempt)
    /\ final_markdown' = other.final_markdown
    /\ last_error_hint' = other.last_error_hint
    /\ parsed' = other.parsed
    /\ eval_result' = other.eval_result
    /\ call' = other.call
    /\ invoked' = other.invoked
    /\ calls' = other.calls
    /\ hist' = other.hist
    /\ lastGen' = other.lastGen
    /\ lastText' = other.lastText
    /\ lastGrade' = other.lastGrade
    /\ io' = other.io
    /\ UNCHANGED << fnVars, llm_client, storage, constructed >>

\* The requests and the outcomes of the two-request specification: POSTs
\* of a valid task with or without a start date, a readable table, a
\* client that can be built, an analysis call that returns, generation
\* calls that fail or return three or two items, gradings of 79 and 80.
PairTable == CHOOSE t \in Tables : t # <<>>
PairInputs ==
    /\ entry \in {"none", "run_flow"}
    /\ pc \notin {"raised", "rejected"}
    /\ req # Unset =>
          /\ req.task = << "q" >>
          /\ req.date_start \in {None, Str(<< "2" >>)}
          /\ req.date_end = None
    /\ io.read \in {NoOutcome, Returned(PairTable)}
    /\ io.analysis \in {NoOutcome, Returned(Lit("A best, B worst"))}
    /\ lastGen \in {NoOutcome} \cup {Failed(e) : e \in TransportErrors}
                   \cup {Returned(GenText(Numbered(n))) : n \in {2, 3}}
    /\ lastGrade \in {NoOutcome,
                      Returned(Grade(FALSE, "flat", IntScore(79), StrCritique("too vague"))),
                      Returned(Grade(FALSE, "flat", IntScore(80), StrCritique("acceptable")))}

StepOfRequest == Next /\ PairInputs'

NextPair ==
    \/ StepOfRequest
    \/ Switch

SpecPair == Init /\ [][NextPair]_vars

\* ------------------------------------------- the functions on their own
pipelineVars == << pc, entry, req, steps, stageVars, response, raised,
                   optLocals, call, llm_client, storage, invoked, calls,
                   attemptHist, io, suspended, constructed >>

\* Largest length of a task and of a table of the function inputs.
MaxTaskLen == 2
MaxRows == 3

\* The i-th numbered item, well formed, with its number in its target.
NumberedSeg(i) ==
    Seg(Label(<<" ", "c", ToString(i)>>), Label(sGood \o <<" ">>), Label(sThree))

SegOfKind(kind, i) ==
    CASE kind = "good" -> NumberedSeg(i)
      [] kind = "nolabel" -> Seg(Label(sGood), NoLabel, Label(sThree))
      [] kind = "placeholder" -> Seg(Label(sNA), Label(sGood), Label(sThree))
      [] OTHER -> Blank

\* Texts: nothing, prose or a labelled text before the first marker, then
\* up to MaxItems numbered segments, each well formed, lacking a label,
\* holding a placeholder, or blank.
ParseInputs ==
    { GenText(<<pre>> \o [i \in DOMAIN kinds |-> SegOfKind(kinds[i], i)]) :
        pre \in {Blank, Prose, NumberedSeg(0)},
        kinds \in UNION { [1..n -> {"good", "nolabel", "placeholder", "blank"}] :
                            n \in 0..MaxItems } }

FieldInputs ==
    { sGood, sThree, sNA, <<>>, <<"x">>, <<" ", " ">>, <<" ", "x", " ">>,
      <<"n", "o", "n", "e", " ">>, <<"wu">> }

TaskInputs == UNION { [1..n -> {" ", "q"}] : n \in 0..MaxTaskLen }
DateInputs ==
    { None, Str(<<>>), Str(<<" ">>), Str(<<" ", " ">>), Str(<<"2">>), Str(<<"?">>) }

RowInputs ==
    { Row(<<"1">>, "A", 100, 10, 1, 50), Row(<<"2">>, "A", 300, 10, 0, 30),
      Row(<<"2">>, "B", 0, 0, 0, 0), Row(<<"3">>, "B", 20, 4, 2, 8),
      Row(<<"?">>, "B", 10, 5, 1, 7) }
TableInputs == UNION { [1..n -> RowInputs] : n \in 0..MaxRows }
RangeInputs ==
    { None, Str(<<" ">>), Str(<<"1">>), Str(<<"2">>), Str(<<"3">>), Str(<<"?">>) }

\* df["date"] = pd.to_datetime(df["date"], errors="coerce")
Dated(table) == [i \in DOMAIN table |-> [table[i] EXCEPT !.date = CoerceDate(@)]]

\* _parse_and_validate(text)
ApplyParse ==
    /\ fn_in = Unset
    /\ \E text \in ParseInputs :
          /\ fn_in' = [f |-> "parse", text |-> text]
          /\ fn_out' = _parse_and_validate(text)
    /\ UNCHANGED pipelineVars

\* OptimizationItem(target=t, action=a, outcome=o)
ApplyItem ==
    /\ fn_in = Unset
    /\ \E t \in FieldInputs, a \in FieldInputs, o \in FieldInputs :
          /\ fn_in' = [f |-> "item", target |-> t, action |-> a, outcome |-> o]
          /\ fn_out' = OptimizationItem(t, a, o)
    /\ UNCHANGED pipelineVars

\* AgentTaskRequest(task=..., date_start=..., date_end=...)
ApplyRequest ==
    /\ fn_in = Unset
    /\ \E task \in TaskInputs, ds \in DateInputs, de \in DateInputs :
          /\ fn_in' = [f |-> "request", task |-> task, date_start |-> ds,
                       date_end |-> de]
          /\ fn_out' = AgentTaskRequest(task, ds, de)
    /\ UNCHANGED pipelineVars

\* pd.to_datetime(bound) raises on a string that is no date; otherwise the
\* rows the filters leave.
FilterOutcome(df, r) ==
    IF \/ IsSet(r.date_start) /\ ~IsDateString(r.date_start.s)
       \/ IsSet(r.date_end) /\ ~IsDateString(r.date_end.s)
    THEN Failed("DateParseError")
    ELSE Returned(FilterRows(df, r))

\* DataAgent.run, lines 60-65: the rows left by the two filters.
ApplyFilter ==
    /\ fn_in = Unset
    /\ \E table \in TableInputs, ds \in RangeInputs, de \in RangeInputs :
          /\ fn_in' = [f |-> "filter", table |-> table, date_start |-> ds,
                       date_end |-> de]
          /\ fn_out' = FilterOutcome(Dated(table),
                                     AgentTaskRequest(<<"q">>, ds, de).req)
    /\ UNCHANGED pipelineVars

\* DataAgent.run, lines 67-82: the totals and ratios of the filtered rows.
ApplyAggregate ==
    /\ fn_in = Unset
    /\ \E table \in TableInputs :
          /\ fn_in' = [f |-> "aggregate", rows |-> Dated(table)]
          /\ fn_out' = Aggregate(Dated(table))
    /\ UNCHANGED pipelineVars

\* The result is dropped before the next application.
Discard ==
    /\ fn_in # Unset
    /\ fn_in' = Unset
    /\ fn_out' = Unset
    /\ UNCHANGED pipelineVars

NextFn ==
    \/ ApplyParse
    \/ ApplyItem
    \/ ApplyRequest
    \/ ApplyFilter
    \/ ApplyAggregate
    \/ Discard

SpecFn == Init /\ [][NextFn]_vars

\* ------------------------------------------------------------- properties
OptReturned == opt_result # Unset
Exhausted == OptReturned /\ ~opt_result.verified
Accepted == OptReturned /\ opt_result.verified

AllAttempts(kind) == \A i \in DOMAIN hist : hist[i] = kind

\* The reason for which the latest attempt failed, from what its calls
\* returned.
LatestFailureReason ==
    IF lastGen.k = "failed" THEN StrOfError(lastGen.error)
    ELSE IF ~_parse_and_validate(lastGen.output).ok
         THEN _parse_and_validate(lastGen.output).reason
         ELSE _evaluate_quality(lastGrade).critique

\* The history of attempts tells what the calls returned.
HistoryIsFaithful ==
    (pc = "opt_loop" /\ hist # <<>>) =>
        LET h == hist[Len(hist)]
        IN  /\ (h = "generation_failed") = (lastGen.k = "failed")
            /\ (h = "parse_failed") =
                  (lastGen.k = "returned" /\ ~_parse_and_validate(lastGen.output).ok)
            /\ (h = "grade_failed") =
                  (lastGen.k = "returned" /\ _parse_and_validate(lastGen.output).ok
                   /\ lastGrade.k # "none")

\* C1: while every generation call of a run of OptimizationAgent has
\* returned a text that fails parsing, no grading call is made and at
\* most 3 generation calls are made; the run returns only after exactly 3
\* generation calls, and then with verified = false.
C1_UnparsableExhaustsAfterThree ==
    (AllAttempts("parse_failed") /\ pc # "opt_grade") =>
        /\ calls.grade = 0
        /\ calls.generate <= 3
        /\ OptReturned => /\ ~opt_result.verified
                          /\ calls.generate = 3
                          /\ Len(hist) = 3

C1_Witness ==
    /\ Exhausted
    /\ hist = << "parse_failed", "parse_failed", "parse_failed" >>
    /\ calls.generate = 3

\* C2: the prompt of every generation call after the first one holds the
\* failure reason of the attempt before it.
C2_PromptCarriesCorrection ==
    (pc = "opt_gen" /\ attempt >= 1) =>
        \E i \in DOMAIN call.user_prompt : call.user_prompt[i] = last_error_hint

\* C3: a run of OptimizationAgent that returns after 3 failed attempts
\* returns verified = false, an empty structured_data, the text of the
\* latest generation call that returned, and the reason for which the
\* third attempt failed.
C3_ExhaustedResult ==
    Exhausted =>
        /\ Len(hist) = 3
        /\ opt_result.structured_data = <<>>
        /\ opt_result.suggestions = (IF lastText = Unset THEN EmptyStr ELSE lastText)
        /\ (lastGen.k = "returned" => opt_result.suggestions = lastGen.output)
        /\ opt_result.fail_reason = LatestFailureReason

C3_Witness ==
    /\ Exhausted
    /\ hist = << "grade_failed", "generation_failed", "parse_failed" >>
    /\ opt_result.fail_reason = CountReason

\* C4: when the grading of an attempt that parsed passes, OptimizationAgent
\* returns at once the text, the items and the evaluation of that attempt
\* with verified = true, and from then on the request makes no call.
C4_AcceptedReturnsAtOnce ==
    /\ [][ (pc = "opt_grade" /\ _evaluate_quality(lastGrade').passed) =>
             /\ opt_result' =
                  [suggestions |-> lastGen.output,
                   structured_data |-> _parse_and_validate(lastGen.output).items,
                   evaluation |-> _evaluate_quality(lastGrade'),
                   verified |-> TRUE]
             /\ pc' = "done"
             /\ call' = Unset
             /\ calls' = calls ]_vars
    /\ [][ (OptReturned /\ pc' # "idle") => (calls' = calls /\ call' = Unset) ]_vars
    /\ [](OptReturned => (pc = "done" /\ call = Unset))

C4_Witness ==
    /\ Accepted
    /\ hist = << "parse_failed", "accepted" >>
    /\ calls = [analysis |-> 0, generate |-> 2, grade |-> 1]
    /\ Len(opt_result.structured_data) = 4

InRunFlow == entry = "run_flow"
DataFailed == InRunFlow /\ data_result # Unset /\ ~data_result.verified

\* C5: a run_flow whose DataAgent returns verified = false has returned
\* the task-failed marker with empty analysis and optimization fields and
\* a trace of the one DataAgent step; AnalysisAgent and OptimizationAgent
\* are not invoked and no language-model call is made.
C5_DataFailureEndsRun ==
    DataFailed =>
        /\ pc = "done"
        /\ response = [data_summary |-> TaskFailed,
                       analysis_insights |-> EmptyStr,
                       optimization_suggestions |-> EmptyStr,
                       steps |-> << [name |-> "DataAgent",
                                     summary |-> Preview(data_result.summary),
                                     raw_output |-> data_result] >>]
        /\ invoked = << "DataAgent" >>
        /\ analysis_result = Unset
        /\ opt_result = Unset
        /\ calls = NoCalls
        /\ call = Unset

C5_Witness ==
    /\ DataFailed
    /\ response # Unset
    /\ data_result.error = StrOfError("FileNotFoundError")

\* C6: a run_flow whose DataAgent succeeded and whose OptimizationAgent
\* returned verified = false returns the fixed failure marker as
\* optimization_suggestions, not the rejected text, and the summary of
\* DataAgent and the text of AnalysisAgent in the other two fields.
C6_OptimizationFailureMarker ==
    (InRunFlow /\ Exhausted) =>
        /\ data_result.verified
        /\ response.optimization_suggestions = OptimizationFailed
        /\ response.optimization_suggestions # opt_result.suggestions
        /\ response.data_summary = data_result.summary
        /\ response.analysis_insights = analysis_result.analysis

C6_Witness ==
    /\ InRunFlow
    /\ Exhausted
    /\ response # Unset
    /\ opt_result.suggestions = GenText(Numbered(3))
    /\ DOMAIN data_result.summary.rows = {"A", "B"}

StageNames == << "DataAgent", "AnalysisAgent", "OptimizationAgent" >>
StageResults == << data_result, analysis_result, opt_result >>
StagesReturned == Cardinality({i \in 1..3 : StageResults[i] # Unset})

IsPrefix(a, b) == Len(a) <= Len(b) /\ SubSeq(b, 1, Len(a)) = a

C8_NoFailureEscapes ==
    /\ pc = "raised" => raised.e \notin TransportErrors
    /\ (InRunFlow /\ pc = "done") =>
          /\ response # Unset
          /\ \A i \in 1..3 :
                StageResults[i] # Unset =>
                    /\ "verified" \in DOMAIN StageResults[i]
                    /\ ~StageResults[i].verified =>
                          DOMAIN StageResults[i] \cap {"error", "fail_reason"} # {}

\* C9: OptimizationAgent.run called on its own returns a result record,
\* whatever its calls return and whether or not the language-model client
\* can be obtained.
C9_OptimizationNeverRaises ==
    entry = "opt_run" => pc # "raised"

\* C10: the evaluation of a grader response whose score was parsed as the
\* integer s has score s and passed = (s >= 80): 80 passes, 79 does not.
C10_PassBoundary ==
    (eval_result # Unset /\ lastGrade.k = "returned"
     /\ lastGrade.output.shape = "flat" /\ lastGrade.output.score.k = "int") =>
        LET s == lastGrade.output.score.v
        IN  /\ eval_result.score = s
            /\ eval_result.passed = (s >= 80)
            /\ s = 80 => (eval_result.passed /\ Accepted)
            /\ s = 79 => (~eval_result.passed /\ ~Accepted)

C10_Witness ==
    /\ hist = << "grade_failed", "accepted" >>
    /\ last_error_hint = Lit("too vague")
    /\ lastGrade.output.score = IntScore(80)
    /\ eval_result.passed

\* C11: every evaluation the quality gate produces has a score within
\* 0..100 and passed = (score >= 80).
C11_EvaluationInRange ==
    eval_result # Unset =>
        /\ eval_result.score \in 0..100
        /\ eval_result.passed = (eval_result.score >= PassThreshold)

RunEnded == pc \in {"done", "raised"}

\* C12: a run_flow that has ended has returned a response, and an
\* OptimizationAgent that has ended has returned accepted or exhausted
\* after one to three attempts made one after the other, on each of which
\* a generation was asked for once.
C12_EveryRunCompletes ==
    /\ (InRunFlow /\ RunEnded) => (pc = "done" /\ response # Unset)
    /\ (RunEnded /\ "OptimizationAgent" \in { invoked[i] : i \in DOMAIN invoked }) =>
          /\ OptReturned
          /\ Len(hist) \in 1..max_retries
          /\ calls.generate = Len(hist)
    /\ pc \in {"opt_gen", "opt_grade"} => attempt = Len(hist)

\* C13: a run_flow that has ended has invoked DataAgent once, then
\* AnalysisAgent and OptimizationAgent once each when DataAgent returned
\* verified = true and neither otherwise; AnalysisAgent has made at most
\* one language-model call.
C13_StagesInvokedOnce ==
    /\ InRunFlow => calls.analysis <= 1
    /\ (InRunFlow /\ RunEnded) =>
          invoked = IF data_result.verified THEN StageNames ELSE << "DataAgent" >>

AnalysisInvoked == "AnalysisAgent" \in { invoked[i] : i \in DOMAIN invoked }

\* C14: AnalysisAgent called with an empty summary makes no language-model
\* call and what it returns is the no-data marker; called with a non-empty
\* summary it makes one call, never a second, and what it returns is the
\* text that call returned, unchanged.
C14_AnalysisOneCallOrMarker ==
    AnalysisInvoked =>
        IF SummaryArg = EmptyStr
        THEN /\ calls.analysis = 0
             /\ io.analysis = NoOutcome
             /\ pc # "an_call"
             /\ analysis_result # Unset => analysis_result = [analysis |-> NoData]
        ELSE /\ calls.analysis <= 1
             /\ pc = "an_call" => calls.analysis = 1
             /\ analysis_result # Unset =>
                   /\ calls.analysis = 1
                   /\ io.analysis.k = "returned"
                   /\ analysis_result = [analysis |-> io.analysis.output]

C14_Witness ==
    /\ entry = "analysis_run"
    /\ req.data_summary = EmptyStr
    /\ pc = "done"
    /\ analysis_result = [analysis |-> NoData]
    /\ calls.analysis = 0

\* C15: a run_flow on a task that is empty or only white space has
\* returned after DataAgent alone: its result has verified = false and the
\* validation message as error, the data source was not read, neither
\* other agent was invoked and no language-model call was made. A request
\* the route rejects starts no stage at all.
C15_BlankTaskEndsAtValidation ==
    /\ (InRunFlow /\ Strip(req.task) = <<>> /\ pc # "rf_data") =>
          /\ pc = "done"
          /\ data_result = [summary |-> DataAborted, error |-> TaskErrorMsg,
                            verified |-> FALSE]
          /\ response # Unset
          /\ response.data_summary = TaskFailed
          /\ io = NoIo
          /\ invoked = << "DataAgent" >>
          /\ calls = NoCalls
          /\ call = Unset
          /\ analysis_result = Unset
          /\ opt_result = Unset
    /\ pc = "rejected" =>
          /\ Strip(req.task) = <<>>
          /\ invoked = <<>>
          /\ io = NoIo
          /\ calls = NoCalls
          /\ response = Unset

C15_Witness ==
    /\ InRunFlow
    /\ req.task = << " " >>
    /\ pc = "done"
    /\ ~data_result.verified
    /\ data_result.error = TaskErrorMsg
    /\ Len(response.steps) = 1

FirstAttemptOver == Len(hist) = 1
ThreeItems == GenText(Numbered(3))
PassingGrade ==
    /\ lastGrade.k = "returned"
    /\ lastGrade.output.shape = "flat"
    /\ lastGrade.output.score.k = "int"
    /\ lastGrade.output.score.v >= PassThreshold

Parsing == fn_in # Unset /\ fn_in.f = "parse"

\* The segments of the text that are blocks, by their positions.
BlockPositions == { i \in DOMAIN fn_in.text.segs : fn_in.text.segs[i] # Blank }
BlockCount == Cardinality(BlockPositions)

\* The item a well-formed numbered segment stands for.
ItemOfSeg(i) == [target |-> << "c", ToString(i) >>, action |-> sGood,
                 outcome |-> sThree]
WellFormedOnly ==
    \A p \in BlockPositions : p > 1 /\ fn_in.text.segs[p] = NumberedSeg(p - 1)
FourNumbered == GenText(<<Blank>> \o [i \in 1..4 |-> NumberedSeg(i)])

\* C17: _parse_and_validate succeeds only on a text of three to five
\* blocks; on two blocks, six blocks or any other count outside 3..5 it
\* fails with the count reason; on a text whose three to five blocks are
\* all well formed, four of them in particular, it succeeds with one item
\* per block, in the order of the blocks.
C17_CountOfBlocks ==
    Parsing =>
        /\ fn_out.ok => BlockCount \in 3..5
        /\ BlockCount \notin 3..5 => fn_out = [ok |-> FALSE, reason |-> CountReason]
        /\ (WellFormedOnly /\ BlockCount \in 3..5) =>
              /\ fn_out.ok
              /\ Len(fn_out.items) = BlockCount
              /\ { fn_out.items[k] : k \in 1..Len(fn_out.items) }
                    = { ItemOfSeg(p - 1) : p \in BlockPositions }
              /\ \A k \in 1..Len(fn_out.items), l \in 1..Len(fn_out.items) :
                    k < l =>
                      \E p \in BlockPositions, q \in BlockPositions :
                          /\ p < q
                          /\ fn_out.items[k] = ItemOfSeg(p - 1)
                          /\ fn_out.items[l] = ItemOfSeg(q - 1)
        /\ fn_in.text = FourNumbered =>
              (fn_out.ok /\ fn_out.items = [i \in 1..4 |-> ItemOfSeg(i)])

C17_Witness ==
    /\ Parsing
    /\ fn_in.text = FourNumbered
    /\ fn_out.ok
    /\ Len(fn_out.items) = 4
    /\ fn_out.items[4].target = << "c", "4" >>

Constructing == fn_in # Unset /\ fn_in.f = "item"

Placeholders ==
    { <<"wu">>, <<"n", "/", "a">>, <<"wei", "zhi">>, <<"n", "o", "n", "e">>,
      <<"u", "n", "k", "n", "o", "w", "n">> }
IsPlaceholder(v) == Lower(Strip(v)) \in Placeholders

Requesting == fn_in # Unset /\ fn_in.f = "request"

HasText(s) == \E i \in DOMAIN s : s[i] # " "
BlankDate(v) == v = None \/ ~HasText(v.s)

\* The rows a request leaves of a table when none of its bounds is used.
Unfiltered(r) ==
    \A table \in TableInputs : FilterRows(Dated(table), r) = Dated(table)

\* C19: AgentTaskRequest rejects a task without a non-blank character and
\* accepts any other, kept as given; a date_start or date_end that is
\* None, empty or only white space becomes None, and DataAgent's filter
\* for that bound is not applied; any other bound is kept as given.
C19_RequestNormalised ==
    Requesting =>
        /\ fn_out.ok = HasText(fn_in.task)
        /\ fn_out.ok =>
              /\ fn_out.req.task = fn_in.task
              /\ fn_out.req.date_start =
                    IF BlankDate(fn_in.date_start) THEN None ELSE fn_in.date_start
              /\ fn_out.req.date_end =
                    IF BlankDate(fn_in.date_end) THEN None ELSE fn_in.date_end
              /\ BlankDate(fn_in.date_start) => ~IsSet(fn_out.req.date_start)
              /\ BlankDate(fn_in.date_end) => ~IsSet(fn_out.req.date_end)
              /\ (BlankDate(fn_in.date_start) /\ BlankDate(fn_in.date_end)) =>
                    Unfiltered(fn_out.req)

C19_Witness ==
    /\ Requesting
    /\ fn_in.task = << " ", "q" >>
    /\ fn_in.date_start = Str(<< " ", " " >>)
    /\ fn_in.date_end = Str(<< "2" >>)
    /\ fn_out.ok
    /\ fn_out.req = [task |-> << " ", "q" >>, date_start |-> None,
                     date_end |-> Str(<< "2" >>)]

Filtering == fn_in # Unset /\ fn_in.f = "filter"

\* The loaded records with their dates read, and the bounds that are set.
Loaded == Dated(fn_in.table)
HasStart == fn_in.date_start # None /\ HasText(fn_in.date_start.s)
HasEnd == fn_in.date_end # None /\ HasText(fn_in.date_end.s)
Included(row) ==
    /\ HasStart => (row.date # NaT /\ row.date.d >= Digits[fn_in.date_start.s[1]])
    /\ HasEnd => (row.date # NaT /\ row.date.d <= Digits[fn_in.date_end.s[1]])
IncludedAt == { i \in DOMAIN Loaded : Included(Loaded[i]) }
NthIncluded(k) ==
    CHOOSE i \in IncludedAt : Cardinality({ j \in IncludedAt : j <= i }) = k

\* C20: the rows DataAgent aggregates are loaded rows, in their order: a
\* loaded row is among them exactly when its date is on or after
\* date_start, if that is set, and on or before date_end, if that is set;
\* with neither bound set they are all the loaded rows.
C20_FilteredRows ==
    (Filtering /\ fn_out.k = "returned") =>
        /\ Len(fn_out.output) = Cardinality(IncludedAt)
        /\ \A k \in 1..Len(fn_out.output) : fn_out.output[k] = Loaded[NthIncluded(k)]
        /\ (~HasStart /\ ~HasEnd) => fn_out.output = Loaded

C20_Witness ==
    /\ Filtering
    /\ fn_in.date_start = Str(<< "2" >>)
    /\ fn_in.date_end = Str(<< "2" >>)
    /\ Len(fn_in.table) = 3
    /\ fn_in.table[1].date = << "1" >>
    /\ fn_in.table[2].date = << "2" >>
    /\ fn_in.table[3].date = << "?" >>
    /\ fn_out.k = "returned"
    /\ Len(fn_out.output) = 1
    /\ fn_out.output[1] = Loaded[2]

Aggregating == fn_in # Unset /\ fn_in.f = "aggregate"

\* The total of a column over the rows at the positions of a set.
RECURSIVE TotalAt(_, _)
TotalAt(positions, col) ==
    IF positions = {} THEN 0
    ELSE LET i == CHOOSE x \in positions : TRUE
         IN  fn_in.rows[i][col] + TotalAt(positions \ {i}, col)
RowsOf(name) == { i \in DOMAIN fn_in.rows : fn_in.rows[i].campaign_name = name }
AtLeastOne(x) == IF x > 1 THEN x ELSE 1

\* C21: the summary has one entry per campaign of the filtered rows; its
\* impressions, clicks, conversions and spend are the sums over the rows
\* of the campaign, and ctr, cpc and cpa are the quotients of those totals
\* clicks / max(impressions, 1), spend / max(clicks, 1) and
\* spend / max(conversions, 1).
C21_TotalsAndRatios ==
    Aggregating =>
        /\ DOMAIN fn_out = { fn_in.rows[i].campaign_name : i \in DOMAIN fn_in.rows }
        /\ \A name \in DOMAIN fn_out :
              LET impressions == TotalAt(RowsOf(name), "impressions")
                  clicks == TotalAt(RowsOf(name), "clicks")
                  conversions == TotalAt(RowsOf(name), "conversions")
                  spend == TotalAt(RowsOf(name), "spend")
              IN  /\ fn_out[name].impressions = impressions
                  /\ fn_out[name].clicks = clicks
                  /\ fn_out[name].conversions = conversions
                  /\ fn_out[name].spend = spend
                  /\ fn_out[name].ctr = << clicks, AtLeastOne(impressions) >>
                  /\ fn_out[name].cpc = << spend, AtLeastOne(clicks) >>
                  /\ fn_out[name].cpa = << spend, AtLeastOne(conversions) >>

C21_Witness ==
    /\ Aggregating
    /\ Len(fn_in.rows) = 3
    /\ fn_in.rows[1].impressions = 100 /\ fn_in.rows[1].campaign_name = "A"
    /\ fn_in.rows[2].impressions = 300 /\ fn_in.rows[2].campaign_name = "A"
    /\ fn_in.rows[3].impressions = 0 /\ fn_in.rows[3].campaign_name = "B"
    /\ fn_out["A"].ctr = << 20, 400 >>
    /\ fn_out["A"].cpa = << 80, 1 >>
    /\ fn_out["B"].ctr = << 0, 1 >>

\* ------------------------------------------------------ calls in flight
Issued == calls.analysis + calls.generate + calls.grade
Completed ==
    (IF io.analysis # NoOutcome THEN 1 ELSE 0)
    + Len(hist) + (IF pc = "opt_grade" THEN 1 ELSE 0)
    + Cardinality({ i \in DOMAIN hist : hist[i] \in {"grade_failed", "accepted"} })
InFlight == Issued - Completed
AwaitingCall == pc \in {"an_call", "opt_gen", "opt_grade"}

\* C22: in a run_flow the stages are invoked in the order DataAgent,
\* AnalysisAgent, OptimizationAgent, each after the one before has
\* returned its result and while no later one has; at most one
\* language-model call is in flight, and run_flow takes no step of its own
\* while one is: the next call is issued by the step that receives the
\* return of the one before, or later.
C22_SequentialChain ==
    /\ [](/\ InFlight \in {0, 1}
          /\ (InFlight = 1) = (call # Unset)
          /\ (call # Unset) = AwaitingCall
          /\ InRunFlow =>
                /\ IsPrefix(invoked, StageNames)
                /\ Len(invoked) - StagesReturned \in {0, 1}
                /\ \A j \in 1..3 :
                      /\ j < Len(invoked) => StageResults[j] # Unset
                      /\ j > Len(invoked) => StageResults[j] = Unset
                /\ pc \in {"an_enter", "an_call"} =>
                      (data_result # Unset /\ analysis_result = Unset)
                /\ pc \in {"opt_enter", "opt_loop", "opt_gen", "opt_grade"} =>
                      (analysis_result # Unset /\ opt_result = Unset))
    /\ [][ /\ Issued' <= Issued + 1 \/ pc' = "idle"
           /\ (call # Unset /\ pc' # "idle") =>
                 (Completed' = Completed + 1 /\ pc' # pc) ]_vars

C22_Witness ==
    /\ InRunFlow
    /\ pc = "opt_grade"
    /\ hist = << "grade_failed" >>
    /\ calls = [analysis |-> 1, generate |-> 2, grade |-> 2]
    /\ InFlight = 1
    /\ call.kind = "grade"

\* ---------------------------------------------------- two requests at once
InOptLoop == pc \in {"opt_loop", "opt_gen", "opt_grade"}

\* What OptimizationAgent.run returns on what its own calls returned.
OwnOptResult ==
    IF hist[Len(hist)] = "accepted"
    THEN AcceptedResult(lastGen.output, _parse_and_validate(lastGen.output).items,
                        _evaluate_quality(lastGrade))
    ELSE ExhaustedResult(IF lastText = Unset THEN EmptyStr ELSE lastText,
                         LatestFailureReason)

\* C23: with two run_flow interleaved at their awaits, the locals of the
\* suspended one are not touched by the steps of the other and are found
\* again as they were when it resumes; the stage results, the trace, the
\* attempt counter, the failure hint and the response of each are those
\* its own request, the table it read and the returns of its own calls
\* determine.
C23_RunsIndependent ==
    /\ [](InRunFlow =>
            /\ data_result # Unset =>
                  data_result = DataAgentRun(req.task, req.date_start,
                                             req.date_end, io.read)
            /\ analysis_result # Unset =>
                  analysis_result = AnalysisResult(io.analysis.output)
            /\ InOptLoop =>
                  /\ attempt = Len(hist)
                  /\ calls.generate = Len(hist) + (IF pc = "opt_loop" THEN 0 ELSE 1)
                  /\ analysis_text = analysis_result.analysis
                  /\ hist # <<>> =>
                        /\ pc = "opt_loop" => last_error_hint = LatestFailureReason
                        /\ \A i \in DOMAIN hist : hist[i] # "accepted"
            /\ HistoryIsFaithful
            /\ OptReturned =>
                  /\ opt_result = OwnOptResult
                  /\ Exhausted => Len(hist) = max_retries
            /\ Len(steps) = StagesReturned
            /\ \A i \in DOMAIN steps :
                  steps[i] = AgentStepResult(StageNames[i],
                      Preview(IF i = 1 THEN data_result.summary
                              ELSE IF i = 2 THEN analysis_result.analysis
                              ELSE opt_result.suggestions),
                      StageResults[i])
            /\ response # Unset =>
                  response = IF ~data_result.verified
                             THEN DataFailedResponse(steps)
                             ELSE FinalResponse(data_result, analysis_result,
                                                opt_result, steps))
    /\ [][ IF active' = active
           THEN other' = other
           ELSE other' = Locals /\ Locals' = other ]_vars

C23_Witness ==
    /\ InRunFlow
    /\ pc = "opt_gen"
    /\ hist = << "parse_failed", "generation_failed" >>
    /\ attempt = 2
    /\ other.entry = "run_flow"
    /\ other.pc = "opt_grade"
    /\ other.hist = << "grade_failed" >>
    /\ other.attempt = 1
    /\ other.last_error_hint = Lit("too vague")
    /\ other.req # req

\* C24: through any sequence of requests at most one language-model
\* client and at most one storage are built: the first call that succeeds
\* builds the instance, and from then on the instance stays and none is
\* built again, in the same request or in a later one.
C24_OneInstanceEach ==
    /\ [](/\ constructed.client <= 1
          /\ constructed.storage <= 1
          /\ (llm_client = "built") = (constructed.client = 1)
          /\ (storage = "built") = (constructed.storage = 1))
    /\ [][ /\ llm_client = "built" =>
                (llm_client' = "built" /\ constructed'.client = constructed.client)
           /\ storage = "built" =>
                (storage' = "built" /\ constructed'.storage = constructed.storage)
         ]_vars

C24_Witness ==
    /\ entry = "opt_run"
    /\ pc = "opt_gen"
    /\ storage = "built"
    /\ llm_client = "built"
    /\ constructed = [client |-> 1, storage |-> 1]

LatestAttempt == hist[Len(hist)]

\* C25: a generation call that fails does not leave OptimizationAgent.run
\* as an exception: the attempt ends with the error's text as failure
\* hint, the loop goes on, after a failure on attempt 1 or 2 the next
\* generation call is made, and after a failure on attempt 3 the error's
\* text is the fail_reason returned.
C25_GenerationFailureCaught ==
    /\ [](/\ InOptLoop => raised = Unset
          /\ (pc = "opt_loop" /\ hist # <<>> /\ LatestAttempt = "generation_failed") =>
                /\ lastGen \in { Failed(e) : e \in TransportErrors }
                /\ last_error_hint = [k |-> "error", e |-> lastGen.error]
                /\ attempt = Len(hist)
          /\ (Exhausted /\ LatestAttempt = "generation_failed") =>
                opt_result.fail_reason = [k |-> "error", e |-> lastGen.error])
    /\ [][ /\ (pc = "opt_gen" /\ pc' # "idle" /\ lastGen'.k = "failed") =>
                /\ pc' = "opt_loop"
                /\ hist' = Append(hist, "generation_failed")
                /\ calls' = calls
           /\ (pc = "opt_loop" /\ hist # <<>> /\ Len(hist) < 3
               /\ LatestAttempt = "generation_failed" /\ pc' \notin {pc, "idle"}) =>
                /\ pc' = "opt_gen"
                /\ calls'.generate = calls.generate + 1
                /\ call'.kind = "generate" ]_vars

C25_Witness ==
    /\ Accepted
    /\ hist = << "generation_failed", "generation_failed", "accepted" >>
    /\ calls.generate = 3
    /\ calls.grade = 1

\* A text of three to five blocks that all yield an item.
ParsesWell(text) ==
    /\ Len(SplitBlocks(text)) \in 3..5
    /\ ParseFrom(SplitBlocks(text), 1, <<>>).ok
Graded == Cardinality({ i \in DOMAIN hist : hist[i] \in {"grade_failed", "accepted"} })

\* C26: a grading call is issued only by the step that receives a
\* generation call's return whose text parses, and it grades that text;
\* an attempt whose generation call fails or whose text does not parse
\* issues no grading call and goes back to the head of the loop, where
\* the next generation call or the return of the exhausted result follows.
C26_GradeOnlyAfterParse ==
    /\ [](/\ pc = "opt_grade" =>
                /\ lastGen.k = "returned"
                /\ ParsesWell(lastGen.output)
                /\ call.kind = "grade"
                /\ \E i \in DOMAIN call.user_prompt :
                      call.user_prompt[i] = lastGen.output
          /\ calls.grade = Graded + (IF pc = "opt_grade" THEN 1 ELSE 0)
          /\ calls.grade <= calls.generate)
    /\ [][ /\ (calls'.grade > calls.grade) =>
                /\ pc = "opt_gen"
                /\ pc' = "opt_grade"
                /\ calls'.grade = calls.grade + 1
                /\ lastGen'.k = "returned"
                /\ ParsesWell(lastGen'.output)
           /\ (pc = "opt_gen" /\ pc' # "idle"
               /\ (lastGen'.k = "failed" \/ ~ParsesWell(lastGen'.output))) =>
                /\ pc' = "opt_loop"
                /\ calls' = calls
                /\ call' = Unset
                /\ Len(hist') = Len(hist) + 1
           /\ (pc = "opt_loop" /\ pc' \notin {pc, "idle"}) =>
                \/ pc' = "opt_gen" /\ Len(hist) < 3
                \/ pc' = "done" /\ Len(hist) = 3 /\ ~opt_result'.verified
         ]_vars

C26_Witness ==
    /\ pc = "opt_grade"
    /\ hist = << "parse_failed", "generation_failed" >>
    /\ calls.generate = 3
    /\ calls.grade = 1
    /\ call.kind = "grade"

\* The grading call failed, or its response holds no JSON object, a
\* malformed one, or one whose score is not an integer.
GradingError ==
    \/ lastGrade.k = "failed"
    \/ /\ lastGrade.k = "returned"
       /\ \/ lastGrade.output.shape \in {"nojson", "malformed"}
          \/ lastGrade.output.shape = "flat" /\ lastGrade.output.score.k # "int"

\* C27: the evaluation of an attempt whose grading is in error is score 0,
\* the unparsable critique and passed = false; no exception leaves; the
\* attempt ends as a failed grade, followed by the next attempt or by the
\* exhausted result.
C27_GradingErrorFallsBack ==
    (eval_result # Unset /\ GradingError) =>
        /\ eval_result = FallbackEvaluation
        /\ LatestAttempt = "grade_failed"
        /\ pc \in {"opt_loop", "opt_gen", "done"}
        /\ OptReturned =>
              (Exhausted /\ opt_result.fail_reason = FallbackEvaluation.critique)

\* C28: the evaluation of a grader response made of optional prose and a
\* well-formed JSON object of the instructed shape, with its nested
\* breakdown object, has the score and the critique of that object, and
\* passed = true when the score is 80 or more.
C28_NestedObjectExtracted ==
    (eval_result # Unset /\ lastGrade.k = "returned"
     /\ lastGrade.output.shape = "nested" /\ lastGrade.output.score.k = "int") =>
        /\ eval_result.score = lastGrade.output.score.v
        /\ eval_result.critique = Lit(lastGrade.output.critique.s)
        /\ eval_result.passed = (lastGrade.output.score.v >= 80)

\* A block without one of its three labels, and a block whose triple the
\* item constructor rejects.
LacksLabel(b) == ~b.target.has \/ ~b.action.has \/ ~b.outcome.has
TripleRejected(b) ==
    /\ ~LacksLabel(b)
    /\ \/ IsPlaceholder(b.target.v) \/ Len(Strip(b.target.v)) < 2
       \/ IsPlaceholder(b.action.v) \/ Len(Strip(b.action.v)) < 5
       \/ IsPlaceholder(b.outcome.v) \/ Len(Strip(b.outcome.v)) < 2
Offending ==
    { p \in BlockPositions :
        LacksLabel(fn_in.text.segs[p]) \/ TripleRejected(fn_in.text.segs[p]) }
FirstOffending == CHOOSE p \in Offending : \A q \in Offending : p <= q
BlockIndex(p) == Cardinality({ q \in BlockPositions : q <= p })

\* C29: on a text with a block that lacks a label or whose triple is
\* rejected, _parse_and_validate fails and returns a reason and no item;
\* when the number of blocks is within 3..5 the reason is the format
\* reason or the validation reason of the first such block, with its
\* 1-based index.
C29_AllOrNothing ==
    (Parsing /\ Offending # {}) =>
        /\ ~fn_out.ok
        /\ DOMAIN fn_out = {"ok", "reason"}
        /\ BlockCount \in 3..5 =>
              /\ fn_out.reason.index = BlockIndex(FirstOffending)
              /\ fn_out.reason.k =
                    IF LacksLabel(fn_in.text.segs[FirstOffending])
                    THEN "format" ELSE "validation"
        /\ BlockCount \notin 3..5 => fn_out.reason = CountReason

C29_Witness ==
    /\ Parsing
    /\ fn_in.text = GenText(<< Blank, NumberedSeg(1), Blank,
                              SegOfKind("placeholder", 3),
                              SegOfKind("nolabel", 4), NumberedSeg(5) >>)
    /\ ~fn_out.ok
    /\ fn_out.reason.k = "validation"
    /\ fn_out.reason.index = 2

\* An item within the constraints of OptimizationItem.
ItemWithinConstraints(it) ==
    /\ DOMAIN it = {"target", "action", "outcome"}
    /\ ~IsPlaceholder(it.target) /\ Len(it.target) >= 2
    /\ ~IsPlaceholder(it.action) /\ Len(it.action) >= 5
    /\ ~IsPlaceholder(it.outcome) /\ Len(it.outcome) >= 2

\* C30: a result of OptimizationAgent.run with verified = true holds 3 to
\* 5 items within the constraints of OptimizationItem and an evaluation
\* with passed = true and a score of 80 or more; its text is the one the
\* latest generation call returned, its items are the items of that text
\* and its evaluation is the one of the grading of that text. A result
\* with verified = false holds no item and no evaluation.
C30_AcceptanceInvariant ==
    /\ Accepted =>
          /\ Len(opt_result.structured_data) \in 3..5
          /\ \A i \in DOMAIN opt_result.structured_data :
                ItemWithinConstraints(opt_result.structured_data[i])
          /\ opt_result.evaluation.passed
          /\ opt_result.evaluation.score >= 80
          /\ LatestAttempt = "accepted"
          /\ lastGen.k = "returned"
          /\ opt_result.suggestions = lastGen.output
          /\ opt_result.structured_data =
                ParseFrom(SplitBlocks(lastGen.output), 1, <<>>).items
          /\ lastGrade.k = "returned"
          /\ opt_result.evaluation.score = lastGrade.output.score.v
          /\ opt_result.evaluation = eval_result
    /\ Exhausted =>
          /\ opt_result.structured_data = <<>>
          /\ "evaluation" \notin DOMAIN opt_result

C30_Witness ==
    /\ Accepted
    /\ hist = << "grade_failed", "parse_failed", "accepted" >>
    /\ Len(opt_result.structured_data) = 5
    /\ opt_result.evaluation.score = 100

\* ------------------------------------------------------------------ C31
\* The exhausted run whose third generation call failed.
LastGenerationFailed ==
    /\ Exhausted
    /\ Len(hist) = 3
    /\ hist[3] = "generation_failed"
\* The attempts whose generation call returned: those that ended at the
\* parse or at the grade.
ReturnedAttempts == { i \in DOMAIN hist : hist[i] # "generation_failed" }

\* C31: when the generation call of the third attempt fails, the
\* exhausted result's suggestions is the output of the latest earlier
\* generation call that returned, the empty string when none returned,
\* and its fail_reason is the text of the third attempt's error; a failed
\* generation call leaves the text kept so far as it was.
C31_FieldsOfDifferentAttempts ==
    /\ [](LastGenerationFailed =>
            /\ lastGen \in { Failed(e) : e \in TransportErrors }
            /\ opt_result.fail_reason = [k |-> "error", e |-> lastGen.error]
            /\ opt_result.structured_data = <<>>
            /\ IF ReturnedAttempts = {}
               THEN opt_result.suggestions = EmptyStr /\ lastText = Unset
               ELSE opt_result.suggestions = lastText /\ lastText \in GenTexts)
    /\ [][ (pc = "opt_gen" /\ pc' # "idle" /\ lastGen'.k = "failed") =>
              /\ final_markdown' = final_markdown
              /\ lastText' = lastText
              /\ last_error_hint' = [k |-> "error", e |-> lastGen'.error] ]_vars

\* Two attempts whose text was graded and refused, then a failed call: the
\* text returned is an earlier attempt's, the reason the last one's.
C31_Witness ==
    /\ LastGenerationFailed
    /\ hist = << "parse_failed", "grade_failed", "generation_failed" >>
    /\ opt_result.suggestions = GenText(Numbered(3))
    /\ opt_result.fail_reason = [k |-> "error", e |-> "timeout"]

\* ------------------------------------------------------------------ C32
\* The text before the first numbered marker and the segments after it.
Preamble == fn_in.text.segs[1]
NumberedCount == Len(fn_in.text.segs) - 1
AllNumberedWellFormed ==
    \A p \in 2..Len(fn_in.text.segs) : fn_in.text.segs[p] = NumberedSeg(p - 1)

\* C32: a text before the first numbered marker that is not blank is a
\* block of its own: prose followed by 3 or 4 well-formed numbered items
\* is rejected for the format of block 1, prose followed by 5 of them for
\* the count of blocks, and no text with prose in front is accepted; the
\* same 3 to 5 items with nothing in front are accepted, one item each.
C32_PreambleIsABlock ==
    Parsing =>
        /\ (Preamble = Prose /\ AllNumberedWellFormed /\ NumberedCount \in 3..4) =>
              fn_out = [ok |-> FALSE, reason |-> FormatReason(1)]
        /\ (Preamble = Prose /\ AllNumberedWellFormed /\ NumberedCount = 5) =>
              fn_out = [ok |-> FALSE, reason |-> CountReason]
        /\ Preamble = Prose => ~fn_out.ok
        /\ (Preamble # Blank /\ fn_out.ok) =>
              /\ Len(fn_out.items) =
                    1 + Cardinality({ p \in 2..Len(fn_in.text.segs) :
                                        fn_in.text.segs[p] # Blank })
              /\ fn_out.items[1] = ItemOfSeg(0)
        /\ (Preamble = Blank /\ AllNumberedWellFormed /\ NumberedCount \in 3..5) =>
              /\ fn_out.ok
              /\ fn_out.items = [i \in 1..NumberedCount |-> ItemOfSeg(i)]

\* An introduction and three well-formed items: rejected at block 1.
C32_Witness ==
    /\ Parsing
    /\ Preamble = Prose
    /\ AllNumberedWellFormed
    /\ NumberedCount = 3
    /\ fn_out = [ok |-> FALSE, reason |-> FormatReason(1)]

\* ------------------------------------------------------------------ C33
\* The generation calls of this run that have returned: one per attempt
\* that ended at the parse or at the grade, and the one whose text is
\* being graded.
GenerationsReturned ==
    Cardinality(ReturnedAttempts) + (IF pc = "opt_grade" THEN 1 ELSE 0)

\* C33: a run makes at most 3 generation calls and at most 3 grading
\* calls, never more grading calls than generation calls that returned,
\* at most 1 analysis call, and at most 7 language-model calls in all;
\* no call is made by anything but the three call sites counted.
C33_CallBudget ==
    /\ calls.generate <= 3
    /\ calls.grade <= 3
    /\ calls.grade <= GenerationsReturned
    /\ GenerationsReturned <= calls.generate
    /\ calls.analysis <= 1
    /\ Issued <= 7
    /\ entry = "opt_run" => calls.analysis = 0
    /\ call # Unset => call.kind \in {"analysis", "generate", "grade"}

\* The run that spends the whole budget: three texts graded and refused.
C33_Witness ==
    /\ InRunFlow
    /\ Exhausted
    /\ hist = << "grade_failed", "grade_failed", "grade_failed" >>
    /\ calls = [analysis |-> 1, generate |-> 3, grade |-> 3]
    /\ Issued = 7

\* ------------------------------------------------------------------ C34
\* C34: temperatures in tenths. The generation call of attempt k is made
\* at 3 + k, whatever else the run has seen: 3 on the first call of every
\* run, one more on each later call of the same run, 5 at most; every
\* grading call is made at 1.
C34_Temperatures ==
    /\ [](/\ pc = "opt_gen" =>
                /\ call.kind = "generate"
                /\ attempt \in 0..2
                /\ attempt = Len(hist)
                /\ call.temperature = 3 + attempt
                /\ call.temperature \in {3, 4, 5}
          /\ pc = "opt_grade" =>
                /\ call.kind = "grade"
                /\ call.temperature = 1)
    /\ [][ (pc = "opt_loop" /\ pc' = "opt_gen") =>
              /\ calls.generate = 0 => call'.temperature = 3
              /\ call'.temperature = 3 + calls.generate
              /\ calls'.generate = calls.generate + 1 ]_vars

\* The third attempt of a run that is not the first since start-up (the
\* storage was built by an earlier run_flow): its generation call is at 5.
C34_Witness ==
    /\ entry = "opt_run"
    /\ storage = "built"
    /\ pc = "opt_gen"
    /\ attempt = 2
    /\ call.temperature = 5
    /\ hist = << "grade_failed", "generation_failed" >>

====
